---- MODULE Spec2Model ----
(***************************************************************************)
(* Photo library: the host component (App), the photo grid with its        *)
(* multi-select mode (PhotoGrid) and the full-screen viewer (PhotoViewer). *)
(*                                                                         *)
(* React state is modelled as variables, one per useState cell.  A handler *)
(* and the re-render and effects it causes are one action: events are      *)
(* handled one at a time and the component tree is re-rendered before the  *)
(* next event is delivered.  A component that is not rendered has no state;*)
(* its cells are put back to their initial values when it unmounts, which  *)
(* is what the next mount will see.                                        *)
(***************************************************************************)
EXTENDS Integers, Sequences, FiniteSets, TLC

(***************************************************************************)
(* Bounds of the model.                                                    *)
(***************************************************************************)
\* largest number of photos the store holds
MaxPhotos == 3
\* largest number of photos in the library the viewer-only specification
\* starts from
MaxLibrary == 2
\* largest pan offset, in pointer steps, a drag may reach
MaxPan == 1
\* latest instant, in ticks of the clock, at which a photo is created
MaxTime == 5
\* largest number of download handlers started
MaxJobs == 1
\* largest number of share promises in flight
MaxShares == 1
\* largest number of files in the upload modal's list
MaxFiles == 2
\* latest instant of the clock while files are decoded
MaxClock == 0
\* ticks of the clock in one calendar day
TicksPerDay == 2
\* days in one month of the calendar
DaysPerMonth == 2

(***************************************************************************)
(* Strings are sequences of characters, so that toLowerCase and includes   *)
(* are computed, not assumed.                                              *)
(***************************************************************************)
toLowerChar(c) ==
    CASE c = "A" -> "a"
      [] c = "B" -> "b"
      [] OTHER -> c

toLowerCase(s) == [i \in 1..Len(s) |-> toLowerChar(s[i])]

\* String.prototype.includes: q occurs in s as a contiguous substring
includes(s, q) ==
    \E i \in 0..Len(s) :
        /\ i + Len(q) <= Len(s)
        /\ SubSeq(s, i + 1, i + Len(q)) = q

\* Names of the files the user uploads: the k-th file taken has this name.
FileNames == << <<"a">>, <<"B">>, <<"A", "b">> >>

FileName(k) == FileNames[((k - 1) % Len(FileNames)) + 1]

\* What the user types in the search box.
Queries == { <<>>, <<"A">>, <<"b">> }

Views == {"photos", "albums", "favorites"}

\* Pointer positions (clientX, clientY) of mouse events.
Pointers == { <<0, 0>>, <<1, 2>> }

\* Keys of keydown events; "x" stands for every key the viewer ignores.
Keys == {"Escape", "ArrowLeft", "ArrowRight", "i", "I", "x"}

(***************************************************************************)
(* JavaScript numbers for the zoom factor.  A positive double is           *)
(* <<hi, lo, e>>: the value (hi * 2^27 + lo) * 2^e, with the 53-bit        *)
(* significand hi * 2^27 + lo in [2^52, 2^53), so 2^25 <= hi < 2^26 and    *)
(* 0 <= lo < 2^27.  Results are rounded to nearest, ties to even.          *)
(***************************************************************************)
Limb == 2^27

\* the next double above <<hi, lo, e>>
succ(hi, lo, e) ==
    IF lo + 1 < Limb THEN <<hi, lo + 1, e>>
    ELSE IF hi + 1 < 2^26 THEN <<hi + 1, 0, e>>
    ELSE <<2^25, 0, e + 1>>

\* x * 1.5: the significand times 3, halved once or twice back to 53 bits
times(x) ==
    LET pLo == (3 * x[2]) % Limb
        pHi == 3 * x[1] + (3 * x[2]) \div Limb
        d == IF pHi < Limb THEN 2 ELSE 4
        qHi == pHi \div d
        qLo == (pHi % d) * (Limb \div d) + pLo \div d
        r == pLo % d
        e == IF d = 2 THEN x[3] ELSE x[3] + 1
    IN IF 2 * r > d \/ (2 * r = d /\ qLo % 2 = 1)
       THEN succ(qHi, qLo, e)
       ELSE <<qHi, qLo, e>>

\* x / 1.5: the significand doubled once or twice, then divided by 3
dividedBy(x) ==
    LET k == IF x[1] >= 3 * 2^24 THEN 2 ELSE 4
        nLo == (k * x[2]) % Limb
        nHi == k * x[1] + (k * x[2]) \div Limb
        qHi == nHi \div 3
        t == (nHi % 3) * Limb + nLo
        qLo == t \div 3
        r == t % 3
        e == IF k = 2 THEN x[3] ELSE x[3] - 1
    IN IF r = 2 THEN succ(qHi, qLo, e) ELSE <<qHi, qLo, e>>

\* x < y
less(x, y) ==
    \/ x[3] < y[3]
    \/ x[3] = y[3] /\ x[1] < y[1]
    \/ x[3] = y[3] /\ x[1] = y[1] /\ x[2] < y[2]

min(x, y) == IF less(y, x) THEN y ELSE x

max(x, y) == IF less(x, y) THEN y ELSE x

\* 1
One == <<2^25, 0, -52>>

Origin == <<0, 0>>

VARIABLES
    \* App
    photos,          \* the store: sequence of Photo records
    selectedPhoto,   \* <<>> (null) or <<p>>: the Photo object the viewer shows
    searchQuery,
    currentView,
    uploaded,        \* number of files decoded so far: the k-th gets id k
    \* PhotoGrid
    selectedPhotos,  \* set of photo ids
    isSelectionMode,
    \* PhotoViewer
    showInfo,
    zoom,
    position,
    isDragging,
    dragStart,
    \* history, not read by any handler
    lastEvent,       \* the event handled last: its name, for an event on
                     \* a tile the id of the tile's photo (else 0), and for
                     \* a mouse event in the viewer the pointer's place,
                     \* for a key event the key, for a batch added to the
                     \* store the ids of its photos
    toggleHistory    \* odd: the ids activated an odd number of times since
                     \* selection mode was entered; pure: nothing but
                     \* activations happened to the selection since then

appVars == <<photos, selectedPhoto, searchQuery, currentView, uploaded>>
gridVars == <<selectedPhotos, isSelectionMode>>
viewerVars == <<showInfo, zoom, position, isDragging, dragStart>>

VARIABLES
    \* the platform and the promises in flight
    hasNativeShare,  \* navigator.share is defined
    downloads,       \* the download handlers started, each with the
                     \* fetches it has in flight and those that settled
    shares,          \* the share and clipboard promises not yet settled
    uncaught         \* the handlers whose promise was rejected with nothing
                     \* to catch it

transferVars == <<hasNativeShare, downloads, shares, uncaught>>

VARIABLES
    \* App
    isUploadModalOpen,
    \* UploadModal
    selectedFiles,     \* sequence of files
    uploading,
    uploadProgress,
    progressInterval,  \* the interval of handleUpload is set
    decoding,          \* for each file of the upload in progress, what has
                       \* become of createPhotoFromFile's promise: pending,
                       \* failed (the file's error event was fired, the
                       \* promise is as it was) or resolved with a photo,
                       \* as the rank-th promise of the upload to resolve
    resetTimer,        \* the timeout of handleUpload is set
    \* the clock
    now

modalVars == <<isUploadModalOpen, selectedFiles, uploading, uploadProgress,
               progressInterval, decoding, resetTimer, now>>
vars == <<appVars, gridVars, viewerVars, lastEvent, toggleHistory,
          transferVars, modalVars>>

Event(op, id) ==
    [op |-> op, id |-> id, at |-> Origin, key |-> "", ids |-> <<>>]

\* a mouse event with the pointer at e
PointerEvent(op, e) == [Event(op, 0) EXCEPT !.at = e]

\* an event of the viewer brought about by a key ("" when by a button)
KeyEvent(op, id, key) == [Event(op, id) EXCEPT !.key = key]

\* a call of the store's add with a batch of photos of these ids, or a bulk
\* action that called its handler with these ids, one call after the other
BatchEvent(op, ids) == [Event(op, 0) EXCEPT !.ids = ids]

NoHistory == [pure |-> TRUE, odd |-> {}]

\* the history after an event whose handler starts no download and no share
\* and is not of the upload modal
Handled(event) ==
    /\ lastEvent' = event
    /\ UNCHANGED <<transferVars, modalVars>>

(***************************************************************************)
(* App: the store and its derived views.                                   *)
(***************************************************************************)
Ids(ps) == {ps[i].id : i \in 1..Len(ps)}

\* a filter that compares the name and the tags as they are written
matchesQuery_CaseSensitive(photo, query) ==
    \/ includes(photo.name, query)
    \/ \E t \in 1..Len(photo.tags) : includes(photo.tags[t], query)

\* the predicate of filteredPhotos
matchesQuery(photo, query) ==
    \/ includes(toLowerCase(photo.name), toLowerCase(query))
    \/ \E t \in 1..Len(photo.tags) :
           includes(toLowerCase(photo.tags[t]), toLowerCase(query))

filteredPhotosOf(ps, query) ==
    SelectSeq(ps, LAMBDA p : matchesQuery(p, query))

displayPhotosOf(ps, query, view) ==
    IF view = "favorites"
    THEN SelectSeq(filteredPhotosOf(ps, query), LAMBDA p : p.isFavorite)
    ELSE filteredPhotosOf(ps, query)

filteredPhotos == filteredPhotosOf(photos, searchQuery)

displayPhotos == displayPhotosOf(photos, searchQuery, currentView)

\* Array.prototype.findIndex(p => p.id === id): 0-based, -1 when absent
findIndex(ps, id) ==
    IF \E i \in 1..Len(ps) : ps[i].id = id
    THEN (CHOOSE i \in 1..Len(ps) :
              /\ ps[i].id = id
              /\ \A j \in 1..(i - 1) : ps[j].id # id) - 1
    ELSE -1

\* ps[i] with a 0-based index: <<>> is JavaScript's undefined
at(ps, i) == IF i \in 0..(Len(ps) - 1) THEN <<ps[i + 1]>> ELSE <<>>

\* the Photo createPhotoFromFile builds for the k-th file taken
createPhotoFromFile(k) ==
    [id |-> k, name |-> FileName(k), isFavorite |-> FALSE, tags |-> <<>>]

\* an add that puts the new photos first
handlePhotoUpload_Prepends(ps, newPhotos) == newPhotos \o ps

\* setPhotos(prev => [...prev, ...newPhotos])
handlePhotoUpload(ps, newPhotos) == ps \o newPhotos

\* a toggle that only ever marks the photo
toggleFavorite_Marks(ps, photoId) ==
    [i \in 1..Len(ps) |->
        IF ps[i].id = photoId
        THEN [ps[i] EXCEPT !.isFavorite = TRUE]
        ELSE ps[i]]

\* setPhotos(prev => prev.map(...))
toggleFavorite(ps, photoId) ==
    [i \in 1..Len(ps) |->
        IF ps[i].id = photoId
        THEN [ps[i] EXCEPT !.isFavorite = ~ps[i].isFavorite]
        ELSE ps[i]]

(***************************************************************************)
(* Mounting.  PhotoGrid is rendered only while displayPhotos is non-empty; *)
(* PhotoViewer only while selectedPhoto is not null.                       *)
(***************************************************************************)
ViewerOpen == selectedPhoto # <<>>

\* The viewer is a fixed layer over the whole window (inset-0, z-50): while
\* it is open the header, the sidebar and the grid under it get no event.
\* The upload modal is such a layer too.
Uncovered == ~ViewerOpen /\ ~isUploadModalOpen

GridMounted == Len(displayPhotos) > 0

\* the grid is rendered and can be operated
GridShown == GridMounted /\ Uncovered

\* a grid that stays mounted, and keeps its state, whatever the host shows
GridKeeps_Mounted(shown) ==
    UNCHANGED <<gridVars, toggleHistory>>

\* the grid's state after a render in which the host shows `shown`
GridKeeps(shown) ==
    IF Len(shown) = 0
    THEN /\ selectedPhotos' = {}
         /\ isSelectionMode' = FALSE
         /\ toggleHistory' = NoHistory
    ELSE UNCHANGED <<gridVars, toggleHistory>>

\* the effect without its dependency on photo.id: it never re-runs
resetEffectRuns_Never(old, new) == FALSE

\* the effect re-run on every change of selectedPhoto
resetEffectRuns_Always(old, new) == TRUE

\* useEffect(..., [photo.id]): does the effect run when the prop goes from
\* old to new while the viewer stays mounted
resetEffectRuns(old, new) == old.id # new.id

\* a viewer whose state outlives it
ViewerShows_KeepsState(sel) == UNCHANGED viewerVars

\* the viewer's state after a render in which selectedPhoto becomes `sel`
ViewerShows(sel) ==
    IF sel = <<>> \/ selectedPhoto = <<>>
    THEN /\ showInfo' = FALSE
         /\ zoom' = One
         /\ position' = Origin
         /\ isDragging' = FALSE
         /\ dragStart' = Origin
    ELSE IF resetEffectRuns(selectedPhoto[1], sel[1])
         THEN /\ zoom' = One
              /\ position' = Origin
              /\ UNCHANGED <<showInfo, isDragging, dragStart>>
         ELSE UNCHANGED viewerVars

\* nothing was started; a platform without navigator.share
NoTransfer ==
    /\ hasNativeShare = FALSE
    /\ downloads = <<>>
    /\ shares = <<>>
    /\ uncaught = {}

\* the upload modal as it is mounted, closed
NoUpload ==
    /\ isUploadModalOpen = FALSE
    /\ selectedFiles = <<>>
    /\ uploading = FALSE
    /\ uploadProgress = 0
    /\ progressInterval = FALSE
    /\ decoding = <<>>
    /\ resetTimer = FALSE
    /\ now = 0

Init ==
    /\ photos = <<>>
    /\ selectedPhoto = <<>>
    /\ searchQuery = <<>>
    /\ currentView = "photos"
    /\ uploaded = 0
    /\ selectedPhotos = {}
    /\ isSelectionMode = FALSE
    /\ showInfo = FALSE
    /\ zoom = One
    /\ position = Origin
    /\ isDragging = FALSE
    /\ dragStart = Origin
    /\ lastEvent = Event("init", 0)
    /\ toggleHistory = NoHistory
    /\ NoTransfer
    /\ NoUpload

(***************************************************************************)
(* Host events.                                                            *)
(***************************************************************************)
\* UploadModal hands a batch of n decoded files to onUpload
Upload ==
    /\ Uncovered
    /\ \E n \in 1..(MaxPhotos - uploaded) :
        LET batch == [k \in 1..n |-> createPhotoFromFile(uploaded + k)]
        IN /\ photos' = handlePhotoUpload(photos, batch)
           /\ uploaded' = uploaded + n
    /\ UNCHANGED <<selectedPhoto, searchQuery, currentView, viewerVars>>
    /\ GridKeeps(displayPhotosOf(photos', searchQuery, currentView))
    /\ Handled(Event("upload", 0))

\* onChange of the search input
SetSearchQuery ==
    /\ Uncovered
    /\ \E q \in Queries \ {searchQuery} : searchQuery' = q
    /\ UNCHANGED <<photos, selectedPhoto, currentView, uploaded, viewerVars>>
    /\ GridKeeps(displayPhotosOf(photos, searchQuery', currentView))
    /\ Handled(Event("search", 0))

\* a menu item of the sidebar
SetCurrentView ==
    /\ Uncovered
    /\ \E v \in Views : currentView' = v
    /\ UNCHANGED <<photos, selectedPhoto, searchQuery, uploaded, viewerVars>>
    /\ GridKeeps(displayPhotosOf(photos, searchQuery, currentView'))
    /\ Handled(Event("view", 0))

\* onToggleFavorite(photoId), from the grid or from the viewer
OnToggleFavorite(photoId, op) ==
    /\ photos' = toggleFavorite(photos, photoId)
    /\ UNCHANGED <<selectedPhoto, searchQuery, currentView, uploaded,
                   viewerVars>>
    /\ GridKeeps(displayPhotosOf(photos', searchQuery, currentView))
    /\ Handled(Event(op, 0))

(***************************************************************************)
(* PhotoGrid: selection mode.                                              *)
(***************************************************************************)
\* the toggle without the exit from selection mode on an empty set
togglePhotoSelection_KeepsMode(photoId) ==
    /\ selectedPhotos' = IF photoId \in selectedPhotos
                         THEN selectedPhotos \ {photoId}
                         ELSE selectedPhotos \cup {photoId}
    /\ UNCHANGED isSelectionMode

\* the toggle that only ever adds
togglePhotoSelection_OnlyAdds(photoId) ==
    /\ selectedPhotos' = selectedPhotos \cup {photoId}
    /\ UNCHANGED isSelectionMode

togglePhotoSelection(photoId) ==
    LET newSet == IF photoId \in selectedPhotos
                  THEN selectedPhotos \ {photoId}
                  ELSE selectedPhotos \cup {photoId}
    IN /\ selectedPhotos' = newSet
       \* Exit selection mode if no photos selected
       /\ isSelectionMode' = IF newSet = {} THEN FALSE ELSE isSelectionMode

startSelectionMode(photoId) ==
    /\ isSelectionMode' = TRUE
    /\ selectedPhotos' = {photoId}

exitSelectionMode ==
    /\ isSelectionMode' = FALSE
    /\ selectedPhotos' = {}

\* select-all over the whole store instead of the photos prop
selectAllPhotos_WholeStore ==
    /\ selectedPhotos' = Ids(photos)
    /\ UNCHANGED isSelectionMode

selectAllPhotos ==
    /\ selectedPhotos' = Ids(displayPhotos)
    /\ UNCHANGED isSelectionMode

\* a click that opens the viewer whatever the mode
clickToggles_Never == FALSE

\* handlePhotoClick decides on isSelectionMode: TRUE toggles, FALSE opens
clickToggles == isSelectionMode

\* the symmetric difference of the history with one more activation
Activated(h, photoId) ==
    IF h.pure
    THEN [h EXCEPT !.odd = IF photoId \in h.odd
                           THEN h.odd \ {photoId}
                           ELSE h.odd \cup {photoId}]
    ELSE h

\* onClick of a tile: handlePhotoClick
PhotoClick ==
    /\ GridShown
    /\ \E i \in 1..Len(displayPhotos) :
        LET photo == displayPhotos[i]
        IN IF clickToggles
           THEN /\ togglePhotoSelection(photo.id)
                /\ toggleHistory' = Activated(toggleHistory, photo.id)
                /\ UNCHANGED <<appVars, viewerVars>>
                /\ Handled(Event("click", photo.id))
           ELSE /\ selectedPhoto' = <<photo>>
                /\ ViewerShows(<<photo>>)
                /\ UNCHANGED <<photos, searchQuery, currentView, uploaded,
                               gridVars, toggleHistory>>
                /\ Handled(Event("click", photo.id))

\* onContextMenu of a tile
PhotoContextMenu ==
    /\ GridShown
    /\ \E i \in 1..Len(displayPhotos) :
        LET photo == displayPhotos[i]
        IN /\ IF ~isSelectionMode
              THEN /\ startSelectionMode(photo.id)
                   /\ toggleHistory' = [pure |-> TRUE, odd |-> {photo.id}]
              ELSE UNCHANGED <<gridVars, toggleHistory>>
           /\ Handled(Event("contextMenu", photo.id))
           /\ UNCHANGED <<appVars, viewerVars>>

\* The selection toolbar is rendered only in selection mode.
ToolbarShown == GridShown /\ isSelectionMode

\* "Select all"
SelectAll ==
    /\ ToolbarShown
    /\ selectAllPhotos
    /\ toggleHistory' = [pure |-> FALSE, odd |-> {}]
    /\ UNCHANGED <<appVars, viewerVars>>
    /\ Handled(Event("selectAll", 0))

\* "Cancel"
Cancel ==
    /\ ToolbarShown
    /\ exitSelectionMode
    /\ toggleHistory' = NoHistory
    /\ UNCHANGED <<appVars, viewerVars>>
    /\ Handled(Event("cancel", 0))

\* a loop that stops after the first id
forEachToggleFavorite_FirstOnly(ps, ids) ==
    IF ids = {}
    THEN ps
    ELSE toggleFavorite(ps, CHOOSE x \in ids : TRUE)

\* selectedPhotos.forEach(photoId => onToggleFavorite(photoId))
RECURSIVE forEachToggleFavorite(_, _)
forEachToggleFavorite(ps, ids) ==
    IF ids = {}
    THEN ps
    ELSE LET photoId == CHOOSE x \in ids : TRUE
         IN forEachToggleFavorite(toggleFavorite(ps, photoId), ids \ {photoId})

\* "Favorite" of the toolbar
FavoriteSelected ==
    /\ ToolbarShown
    /\ photos' = forEachToggleFavorite(photos, selectedPhotos)
    /\ UNCHANGED <<selectedPhoto, searchQuery, currentView, uploaded,
                   viewerVars>>
    /\ GridKeeps(displayPhotosOf(photos', searchQuery, currentView))
    /\ Handled(Event("favoriteSelected", 0))

\* the heart button or the "favorites" menu item of a tile
GridToggleFavorite ==
    /\ GridShown
    /\ \E i \in 1..Len(displayPhotos) :
        OnToggleFavorite(displayPhotos[i].id, "gridFavorite")

(***************************************************************************)
(* PhotoGrid's delete controls.  They are rendered only when the host      *)
(* passes onDeletePhoto, which App does not.  The actions below are the    *)
(* grid under a host that passes the store's remove as onDeletePhoto.      *)
(***************************************************************************)
\* PhotoStore.remove: drops the record with this id, nothing when absent
remove(ps, photoId) == SelectSeq(ps, LAMBDA p : p.id # photoId)

\* a loop that stops after the first id
forEach_FirstOnly(ids) ==
    IF ids = {} THEN <<>> ELSE <<CHOOSE x \in ids : TRUE>>

\* selectedPhotos.forEach: the ids it hands to its callback, call by call
RECURSIVE forEach(_)
forEach(ids) ==
    IF ids = {}
    THEN <<>>
    ELSE LET photoId == CHOOSE x \in ids : TRUE
         IN <<photoId>> \o forEach(ids \ {photoId})

\* the store after onDeletePhoto was called with each of these ids
RECURSIVE onDeletePhotoEach(_, _)
onDeletePhotoEach(ps, calls) ==
    IF calls = <<>>
    THEN ps
    ELSE onDeletePhotoEach(remove(ps, Head(calls)), Tail(calls))

\* selectedPhotos.forEach(photoId => onDeletePhoto(photoId))
forEachDelete(ps, ids) == onDeletePhotoEach(ps, forEach(ids))

\* "Delete" of the toolbar
DeleteSelected ==
    /\ ToolbarShown
    /\ photos' = forEachDelete(photos, selectedPhotos)
    /\ exitSelectionMode
    /\ toggleHistory' = NoHistory
    /\ UNCHANGED <<selectedPhoto, searchQuery, currentView, uploaded,
                   viewerVars>>
    /\ Handled(BatchEvent("deleteSelected", forEach(selectedPhotos)))

\* the "Delete" menu item of a tile
DeletePhoto ==
    /\ GridShown
    /\ \E i \in 1..Len(displayPhotos) :
        /\ photos' = remove(photos, displayPhotos[i].id)
        /\ Handled(Event("delete", displayPhotos[i].id))
    /\ UNCHANGED <<selectedPhoto, searchQuery, currentView, uploaded,
                   viewerVars>>
    /\ GridKeeps(displayPhotosOf(photos', searchQuery, currentView))

(***************************************************************************)
(* PhotoViewer hosted by App: close, next, previous, favorite.             *)
(***************************************************************************)
currentIndex == findIndex(displayPhotos, selectedPhoto[1].id)

\* index onNext reads; with an empty sequence it is NaN, which indexes
\* nothing
\* onNext without the modulo
nextIndex_NoWrap(index, length) == index + 1

nextIndex(index, length) == IF length = 0 THEN -1 ELSE (index + 1) % length

\* onPrevious taking index - 1 also from index 0
prevIndex_NoWrap(index, length) == index - 1

prevIndex(index, length) == IF index = 0 THEN length - 1 ELSE index - 1

\* setSelectedPhoto(target) and the render that follows; when the viewer
\* stays open the history keeps the id of the photo it showed before
Navigate(target, op, key) ==
    /\ selectedPhoto' = target
    /\ ViewerShows(target)
    /\ UNCHANGED <<photos, searchQuery, currentView, uploaded, gridVars,
                   toggleHistory>>
    /\ Handled(KeyEvent(op,
                        IF target = <<>> THEN 0 ELSE selectedPhoto[1].id,
                        key))

onClose(key) == Navigate(<<>>, "close", key)

\* displayPhotos[nextIndex]
nextTarget ==
    at(displayPhotos, nextIndex(currentIndex, Len(displayPhotos)))

\* displayPhotos[prevIndex]
previousTarget ==
    at(displayPhotos, prevIndex(currentIndex, Len(displayPhotos)))

onNext(key) == Navigate(nextTarget, "next", key)

onPrevious(key) == Navigate(previousTarget, "previous", key)

\* the info control only ever showing the panel
toggleInfo_Shows(key) ==
    /\ showInfo' = TRUE
    /\ UNCHANGED <<appVars, gridVars, toggleHistory,
                   zoom, position, isDragging, dragStart>>
    /\ Handled(KeyEvent("toggleInfo", IF showInfo THEN 1 ELSE 0, key))

\* setShowInfo(!showInfo); the history keeps whether the panel was shown
\* before (1) or not (0)
toggleInfo(key) ==
    /\ showInfo' = ~showInfo
    /\ UNCHANGED <<appVars, gridVars, toggleHistory,
                   zoom, position, isDragging, dragStart>>
    /\ Handled(KeyEvent("toggleInfo", IF showInfo THEN 1 ELSE 0, key))

ignoreKey(key) ==
    /\ UNCHANGED <<appVars, gridVars, viewerVars, toggleHistory>>
    /\ Handled(KeyEvent("key", 0, key))

\* handleKeyDown with the two arrow keys exchanged
keyTransition_ArrowsSwapped(key) ==
    CASE key = "Escape" -> "close"
      [] key = "ArrowLeft" -> "next"
      [] key = "ArrowRight" -> "previous"
      [] key \in {"i", "I"} -> "toggleInfo"
      [] OTHER -> "none"

\* the transition handleKeyDown takes for a key
keyTransition(key) ==
    CASE key = "Escape" -> "close"
      [] key = "ArrowLeft" -> "previous"
      [] key = "ArrowRight" -> "next"
      [] key \in {"i", "I"} -> "toggleInfo"
      [] OTHER -> "none"

\* the document's keydown listener, installed while the viewer is mounted
KeyDown ==
    /\ ViewerOpen
    /\ \E key \in Keys :
        LET t == keyTransition(key)
        IN CASE t = "close" -> onClose(key)
             [] t = "previous" -> onPrevious(key)
             [] t = "next" -> onNext(key)
             [] t = "toggleInfo" -> toggleInfo(key)
             [] OTHER -> ignoreKey(key)

\* A drag ends when the pointer leaves the photo area (onMouseLeave), and
\* the controls lie outside it: one is clicked only while no drag is on.
OnControls == ViewerOpen /\ ~isDragging

ClickClose == OnControls /\ onClose("")

\* The arrow buttons are rendered only when photos.length > 1.
ArrowsShown == OnControls /\ Len(displayPhotos) > 1

ClickNext == ArrowsShown /\ onNext("")

ClickPrevious == ArrowsShown /\ onPrevious("")

ClickInfo == OnControls /\ toggleInfo("")

\* the favorite button of the info panel
ViewerToggleFavorite ==
    /\ OnControls
    /\ showInfo
    /\ OnToggleFavorite(selectedPhoto[1].id, "viewerFavorite")

(***************************************************************************)
(* PhotoViewer: zoom and pan.                                              *)
(***************************************************************************)
\* 5
ZoomMax == <<5 * 2^23, 0, -50>>

\* 0.5
ZoomMin == <<2^25, 0, -53>>

\* zoomIn without the upper limit
handleZoomIn_Unclamped(prev) == times(prev)

\* Math.min(prev * 1.5, 5)
handleZoomIn(prev) == min(times(prev), ZoomMax)

\* zoomOut dividing by 2
handleZoomOut_Halves(prev) == max(<<prev[1], prev[2], prev[3] - 1>>, ZoomMin)

\* Math.max(prev / 1.5, 0.5)
handleZoomOut(prev) == max(dividedBy(prev), ZoomMin)

ViewerLocal(op) ==
    /\ UNCHANGED <<appVars, gridVars, toggleHistory>>
    /\ Handled(Event(op, 0))

\* the zoom-in button, disabled when zoom >= 5
ZoomIn ==
    /\ OnControls
    /\ less(zoom, ZoomMax)
    /\ zoom' = handleZoomIn(zoom)
    /\ UNCHANGED <<showInfo, position, isDragging, dragStart>>
    /\ ViewerLocal("zoomIn")

\* the zoom-out button, disabled when zoom <= 0.5
ZoomOut ==
    /\ OnControls
    /\ less(ZoomMin, zoom)
    /\ zoom' = handleZoomOut(zoom)
    /\ UNCHANGED <<showInfo, position, isDragging, dragStart>>
    /\ ViewerLocal("zoomOut")

\* the handlers without their test of the zoom
canDrag_Always == TRUE

\* zoom > 1
canDrag == less(One, zoom)

handleMouseDown(e) ==
    IF canDrag
    THEN /\ isDragging' = TRUE
         /\ dragStart' = <<e[1] - position[1], e[2] - position[2]>>
         /\ UNCHANGED <<showInfo, zoom, position>>
    ELSE UNCHANGED viewerVars

\* the handler without its test of the zoom
handleMouseMove_AnyZoom(e) ==
    IF isDragging
    THEN /\ position' = <<e[1] - dragStart[1], e[2] - dragStart[2]>>
         /\ UNCHANGED <<showInfo, zoom, isDragging, dragStart>>
    ELSE UNCHANGED viewerVars

handleMouseMove(e) ==
    IF isDragging /\ canDrag
    THEN /\ position' = <<e[1] - dragStart[1], e[2] - dragStart[2]>>
         /\ UNCHANGED <<showInfo, zoom, isDragging, dragStart>>
    ELSE UNCHANGED viewerVars

handleMouseUp ==
    /\ isDragging' = FALSE
    /\ UNCHANGED <<showInfo, zoom, position, dragStart>>

InPanRange(pos) ==
    /\ pos[1] \in -MaxPan..MaxPan
    /\ pos[2] \in -(2 * MaxPan)..(2 * MaxPan)

MouseDown ==
    /\ ViewerOpen
    /\ \E e \in Pointers :
           /\ handleMouseDown(e)
           /\ Handled(PointerEvent("mouseDown", e))
    /\ UNCHANGED <<appVars, gridVars, toggleHistory>>

MouseMove ==
    /\ ViewerOpen
    /\ \E e \in Pointers :
           /\ handleMouseMove(e)
           /\ Handled(PointerEvent("mouseMove", e))
    /\ InPanRange(position')
    /\ UNCHANGED <<appVars, gridVars, toggleHistory>>

\* onMouseUp and onMouseLeave
MouseUp ==
    /\ ViewerOpen
    /\ handleMouseUp
    /\ ViewerLocal("mouseUp")

(***************************************************************************)
(* Specifications.                                                         *)
(***************************************************************************)
HostNext == Upload \/ SetSearchQuery \/ SetCurrentView

GridNext ==
    \/ PhotoClick
    \/ PhotoContextMenu
    \/ SelectAll
    \/ Cancel
    \/ FavoriteSelected
    \/ GridToggleFavorite

ViewerNext ==
    \/ KeyDown
    \/ ClickClose
    \/ ClickNext
    \/ ClickPrevious
    \/ ClickInfo
    \/ ViewerToggleFavorite

ZoomPanNext == ZoomIn \/ ZoomOut \/ MouseDown \/ MouseMove \/ MouseUp

\* The application: host, grid and viewer navigation.
Next == HostNext \/ GridNext \/ ViewerNext

Spec == Init /\ [][Next]_vars

(***************************************************************************)
(* The store alone: add and toggleFavorite called with any batch and any   *)
(* id, also a batch that repeats an id and an id the store does not hold.  *)
(***************************************************************************)
Add ==
    /\ \E n \in 1..(MaxPhotos - Len(photos)) :
        \E ids \in [1..n -> 1..MaxLibrary] :
            LET batch == [k \in 1..n |-> createPhotoFromFile(ids[k])]
            IN /\ photos' = handlePhotoUpload(photos, batch)
               /\ uploaded' = uploaded + n
               /\ Handled(BatchEvent("add", ids))
    /\ UNCHANGED <<selectedPhoto, searchQuery, currentView, viewerVars>>
    /\ GridKeeps(displayPhotosOf(photos', searchQuery, currentView))

ToggleFavorite ==
    /\ \E photoId \in 1..(MaxLibrary + 1) :
            /\ photos' = toggleFavorite(photos, photoId)
            /\ Handled(Event("toggleFavorite", photoId))
    /\ UNCHANGED <<selectedPhoto, searchQuery, currentView, uploaded,
                   viewerVars>>
    /\ GridKeeps(displayPhotosOf(photos', searchQuery, currentView))

NextStore == Add \/ ToggleFavorite

SpecStore == Init /\ [][NextStore]_vars

\* The application with the grid's delete controls wired to the store.
DeleteNext == DeleteSelected \/ DeletePhoto

NextDelete == Next \/ DeleteNext

SpecDelete == Init /\ [][NextDelete]_vars

(***************************************************************************)
(* The viewer alone, with zoom and pan, opened from a library that already *)
(* holds photos: n uploaded photos, all marked favorite and shown in the   *)
(* favorites view (where every one is visible until it is un-favorited).   *)
(***************************************************************************)
InitViewer ==
    \E n \in 1..MaxLibrary :
        /\ photos = [k \in 1..n |->
                        [createPhotoFromFile(k) EXCEPT !.isFavorite = TRUE]]
        /\ currentView = "favorites"
        /\ uploaded = n
        /\ selectedPhoto = <<>>
        /\ searchQuery = <<>>
        /\ selectedPhotos = {}
        /\ isSelectionMode = FALSE
        /\ showInfo = FALSE
        /\ zoom = One
        /\ position = Origin
        /\ isDragging = FALSE
        /\ dragStart = Origin
        /\ lastEvent = Event("init", 0)
        /\ toggleHistory = NoHistory
        /\ NoTransfer
        /\ NoUpload

NextViewer == PhotoClick \/ ViewerNext \/ ZoomPanNext

SpecViewer == InitViewer /\ [][NextViewer]_vars

(***************************************************************************)
(* Properties.                                                             *)
(***************************************************************************)
SymDiff(S, x) == IF x \in S THEN S \ {x} ELSE S \cup {x}

\* C1: while the viewer is open, the id of its photo is the id of one of
\* the visible photos (so the viewer is closed when its photo leaves the
\* visible sequence).
C1_ViewerPhotoVisible ==
    ViewerOpen => selectedPhoto[1].id \in Ids(displayPhotos)

\* C2: the grid is in selection mode exactly when some photo is selected.
C2_ModeIffSelected == isSelectionMode <=> (selectedPhotos # {})

\* a click in selection mode (it did not open the viewer) that removed the
\* last selected photo
C2_Witness ==
    /\ lastEvent.op = "click"
    /\ ~ViewerOpen
    /\ selectedPhotos = {}
    /\ ~isSelectionMode

\* C3: every selected id is the id of a visible photo.
C3_SelectionVisible == selectedPhotos \subseteq Ids(displayPhotos)

\* C4: from index i of n visible photos, next shows the photo at index
\* (i + 1) mod n and previous the photo at index n - 1 when i = 0, else
\* i - 1.
C4_NextPreviousWrap ==
    [][(ViewerOpen /\ currentIndex >= 0) =>
        LET i == currentIndex
            n == Len(displayPhotos)
        IN /\ lastEvent'.op = "next" =>
                /\ selectedPhoto' # <<>>
                /\ selectedPhoto'[1].id = displayPhotos[((i + 1) % n) + 1].id
           /\ lastEvent'.op = "previous" =>
                /\ selectedPhoto' # <<>>
                /\ selectedPhoto'[1].id =
                       displayPhotos[(IF i = 0 THEN n - 1 ELSE i - 1) + 1].id
      ]_vars

\* next has wrapped from the last of three photos to the first (with every
\* photo of the store visible, the photo shown before was the third)
C4_Witness ==
    /\ lastEvent.op = "next"
    /\ ViewerOpen
    /\ searchQuery = <<>>
    /\ currentView = "photos"
    /\ Len(displayPhotos) = 3
    /\ currentIndex = 0

\* C5: a next or previous that changes the id of the photo shown leaves
\* zoom = 1 and pan = (0,0).
C5_NavigationResetsZoomPan ==
    [][(/\ ViewerOpen
        /\ lastEvent'.op \in {"next", "previous"}
        /\ selectedPhoto' # <<>>
        /\ selectedPhoto'[1].id # selectedPhoto[1].id)
       => (zoom' = One /\ position' = Origin)
      ]_vars

\* after a navigation the pan is (0,0) although a drag is still in progress
\* whose anchor was taken at pan (1,2): while that drag lasts no mouse move
\* gives (0,0), so the navigation has reset a pan that was not (0,0)
C5_Witness ==
    /\ lastEvent.op \in {"next", "previous"}
    /\ ViewerOpen
    /\ isDragging
    /\ dragStart = <<-1, -2>>
    /\ position = Origin
    /\ zoom = One

\* C6 as stated: with exactly one visible photo, the one shown, zoom is 1
\* and pan is (0,0) right after next or previous.
C6_SinglePhotoResets ==
    (/\ lastEvent.op \in {"next", "previous"}
     /\ ViewerOpen
     /\ Len(displayPhotos) = 1
     /\ currentIndex = 0)
    => (zoom = One /\ position = Origin)

\* C6, amended: with exactly one visible photo, the one shown, next and
\* previous leave the photo shown, zoom and pan as they were.
C6_SinglePhotoKeepsZoomPan ==
    [][(/\ ViewerOpen
        /\ Len(displayPhotos) = 1
        /\ currentIndex = 0
        /\ lastEvent'.op \in {"next", "previous"})
       => /\ selectedPhoto' # <<>>
          /\ selectedPhoto'[1].id = selectedPhoto[1].id
          /\ zoom' = zoom
          /\ position' = position
      ]_vars

\* right after next or previous on the only visible photo the viewer is
\* still zoomed and panned
C6_Witness ==
    /\ lastEvent.op \in {"next", "previous"}
    /\ ViewerOpen
    /\ Len(displayPhotos) = 1
    /\ currentIndex = 0
    /\ zoom # One
    /\ position # Origin

\* C7: while the viewer is open, the photo it works with (isFavorite
\* included) is the store's record with that id.
C7_ViewerShowsStoreRecord ==
    ViewerOpen => \E i \in 1..Len(photos) : photos[i] = selectedPhoto[1]

\* C8: a context menu on P in normal mode enters selection mode with
\* selected = {P}; while only clicks follow, selected is the set of ids
\* activated an odd number of times, and the mode is normal once that set
\* is empty.
C8_SelectionIsOddActivations ==
    /\ (/\ lastEvent.op = "contextMenu"
        /\ toggleHistory = [pure |-> TRUE, odd |-> {lastEvent.id}])
       => (isSelectionMode /\ selectedPhotos = {lastEvent.id})
    /\ (isSelectionMode /\ toggleHistory.pure)
       => selectedPhotos = toggleHistory.odd
    /\ (toggleHistory.pure /\ toggleHistory.odd = {}) => ~isSelectionMode

\* the last click took its photo out of the selection (an even number of
\* activations) while another photo stays selected
C8_Witness ==
    /\ lastEvent.op = "click"
    /\ isSelectionMode
    /\ toggleHistory.pure
    /\ lastEvent.id \notin selectedPhotos
    /\ Cardinality(selectedPhotos) = 1

\* C9: right after select-all the selection is the set of ids of the
\* visible photos and the mode is still selecting.
C9_SelectAllIsVisibleSet ==
    lastEvent.op = "selectAll"
        => (isSelectionMode /\ selectedPhotos = Ids(displayPhotos))

\* select-all while the search hides a photo of the store
C9_Witness ==
    /\ lastEvent.op = "selectAll"
    /\ selectedPhotos # {}
    /\ Ids(displayPhotos) # Ids(photos)

\* C10: a click on P in normal mode opens the viewer on P and leaves the
\* selection alone; a click on P in selection mode toggles P in the
\* selection and leaves the viewer alone.
C10_ClickOpensOrToggles ==
    [][lastEvent'.op = "click" =>
        IF isSelectionMode
        THEN /\ selectedPhotos' = SymDiff(selectedPhotos, lastEvent'.id)
             /\ UNCHANGED selectedPhoto
        ELSE /\ selectedPhoto' # <<>>
             /\ selectedPhoto'[1].id = lastEvent'.id
             /\ UNCHANGED <<selectedPhotos, isSelectionMode>>
      ]_vars

\* a click in selection mode added a second photo and opened nothing
C10_Witness ==
    /\ lastEvent.op = "click"
    /\ isSelectionMode
    /\ ~ViewerOpen
    /\ lastEvent.id \in selectedPhotos
    /\ Cardinality(selectedPhotos) = 2

\* C11: from a photo of a visible sequence of more than one photo, next
\* followed by previous, and previous followed by next, show again the photo
\* the first of the two started from; with a single visible photo, the one
\* shown, next and previous keep the photo shown.
C11_NextPreviousRoundTrip ==
    [][/\ (/\ ViewerOpen
           /\ \/ lastEvent.op = "next" /\ lastEvent'.op = "previous"
              \/ lastEvent.op = "previous" /\ lastEvent'.op = "next"
           /\ Len(displayPhotos) > 1
           /\ lastEvent.id \in Ids(displayPhotos))
          => /\ selectedPhoto' # <<>>
             /\ selectedPhoto'[1].id = lastEvent.id
       /\ (/\ ViewerOpen
           /\ lastEvent'.op \in {"next", "previous"}
           /\ Len(displayPhotos) = 1
           /\ selectedPhoto[1].id \in Ids(displayPhotos))
          => /\ selectedPhoto' # <<>>
             /\ selectedPhoto'[1].id = selectedPhoto[1].id
      ]_vars

\* next has wrapped from the third of three visible photos to the first,
\* and previous from here shows the third again
C11_Witness ==
    /\ lastEvent.op = "next"
    /\ ViewerOpen
    /\ Len(displayPhotos) = 3
    /\ currentIndex = 0
    /\ lastEvent.id = displayPhotos[3].id
    /\ previousTarget # <<>>
    /\ previousTarget[1].id = lastEvent.id

\* C12: zoom always lies in [0.5, 5]: zoomIn sets it to min(zoom * 1.5, 5),
\* zoomOut to max(zoom / 1.5, 0.5), and no event takes it out of the range.
C12_ZoomInRange ==
    /\ [](~less(zoom, ZoomMin) /\ ~less(ZoomMax, zoom))
    /\ [][/\ lastEvent'.op = "zoomIn" =>
                zoom' = IF less(ZoomMax, times(zoom)) THEN ZoomMax
                                                      ELSE times(zoom)
          /\ lastEvent'.op = "zoomOut" =>
                zoom' = IF less(dividedBy(zoom), ZoomMin) THEN ZoomMin
                                                          ELSE dividedBy(zoom)
         ]_vars

\* a zoomOut has been clamped: it started above 0.5 * 1.5 and ended at 0.5
C12_Witness ==
    /\ ViewerOpen
    /\ lastEvent.op = "zoomOut"
    /\ zoom = ZoomMin

\* x and y are the same double or neighbours (one unit in the last place)
adjacent(x, y) ==
    \/ x = y
    \/ succ(x[1], x[2], x[3]) = y
    \/ succ(y[1], y[2], y[3]) = x

\* C13 as stated: zoomIn followed by zoomOut ends at the zoom it started
\* from exactly when the zoomIn was not clamped (zoom * 1.5 <= 5).
C13_ZoomRoundTripExact ==
    [][lastEvent'.op = "zoomIn" =>
          ((handleZoomOut(zoom') = zoom) <=> ~less(ZoomMax, times(zoom)))
      ]_vars

\* C13, amended: when the zoomIn was not clamped, zoomIn followed by
\* zoomOut ends at the zoom it started from or at the double next to it,
\* and from 1 it ends at 1; when the zoomIn was clamped at 5 it ends at
\* another zoom than it started from.
C13_ZoomRoundTripNearly ==
    [][lastEvent'.op = "zoomIn" =>
          LET back == handleZoomOut(zoom')
          IN /\ ~less(ZoomMax, times(zoom)) => adjacent(back, zoom)
             /\ zoom = One => back = One
             /\ less(ZoomMax, times(zoom)) => back # zoom
      ]_vars

\* a zoomIn has led to 1.4814814814814814, the double below the one nearest
\* to 40/27: the round trip from here is not clamped and ends one double
\* higher
C13_Witness ==
    /\ ViewerOpen
    /\ lastEvent.op = "zoomIn"
    /\ zoom = <<49710269, 84507458, -52>>
    /\ ~less(ZoomMax, times(zoom))
    /\ handleZoomOut(handleZoomIn(zoom)) = succ(zoom[1], zoom[2], zoom[3])

\* C14: a pointer-down at zoom <= 1 leaves dragging, anchor and pan as they
\* were; at zoom > 1 it sets dragging and the anchor to pointer - pan, and
\* leaves the pan.
C14_BeginDragNeedsZoom ==
    [][lastEvent'.op = "mouseDown" =>
          IF less(One, zoom)
          THEN /\ isDragging'
               /\ dragStart' = <<lastEvent'.at[1] - position[1],
                                 lastEvent'.at[2] - position[2]>>
               /\ position' = position
          ELSE /\ isDragging' = isDragging
               /\ dragStart' = dragStart
               /\ position' = position
      ]_vars

\* a pointer-down at (0,0) has begun a drag of a photo panned to (1,2)
C14_Witness ==
    /\ ViewerOpen
    /\ lastEvent.op = "mouseDown"
    /\ lastEvent.at = Origin
    /\ less(One, zoom)
    /\ isDragging
    /\ position = <<1, 2>>
    /\ dragStart = <<-1, -2>>

\* the pan a drag gives with the pointer at e
dragged(e) == <<e[1] - dragStart[1], e[2] - dragStart[2]>>

\* while the viewer stays open the pan changes only in a pointer move made
\* while dragging and in a next or previous that changes the photo; endDrag,
\* zoomIn, zoomOut and toggleInfo leave it, and endDrag clears dragging
panFrame ==
    /\ (ViewerOpen /\ ViewerOpen' /\ position' # position)
        => \/ lastEvent'.op = "mouseMove" /\ isDragging
           \/ /\ lastEvent'.op \in {"next", "previous"}
              /\ selectedPhoto'[1].id # selectedPhoto[1].id
    /\ lastEvent'.op \in {"mouseUp", "zoomIn", "zoomOut", "toggleInfo"}
        => position' = position
    /\ lastEvent'.op = "mouseUp" => ~isDragging'

\* C15 as stated: a pointer move while dragging sets pan = pointer - anchor,
\* a pointer move while not dragging leaves the pan, and the pan changes in
\* no other event but the reset on a change of photo.
C15_PanOnlyByDrag ==
    [][/\ (lastEvent'.op = "mouseMove" /\ isDragging)
           => position' = dragged(lastEvent'.at)
       /\ (lastEvent'.op = "mouseMove" /\ ~isDragging)
           => position' = position
       /\ panFrame
      ]_vars

\* C15, amended: a pointer move while dragging at zoom > 1 sets
\* pan = pointer - anchor, a pointer move while not dragging or at zoom <= 1
\* leaves the pan, and the pan changes in no other event but the reset on a
\* change of photo.
C15_PanOnlyByDragZoomed ==
    [][/\ (lastEvent'.op = "mouseMove" /\ isDragging /\ less(One, zoom))
           => position' = dragged(lastEvent'.at)
       /\ (lastEvent'.op = "mouseMove" /\ ~(isDragging /\ less(One, zoom)))
           => position' = position
       /\ panFrame
      ]_vars

\* a pointer move at (1,2) was received while dragging at zoom 1 (the drag
\* had begun before a change of photo reset the zoom): the pan is still
\* (0,0), not pointer - anchor
C15_Witness ==
    /\ ViewerOpen
    /\ lastEvent.op = "mouseMove"
    /\ lastEvent.at = <<1, 2>>
    /\ isDragging
    /\ zoom = One
    /\ position = Origin
    /\ dragged(lastEvent.at) # Origin

\* the viewer state a newly opened viewer has
fresh ==
    /\ ~showInfo
    /\ zoom = One
    /\ position = Origin
    /\ ~isDragging

\* C16: a closed viewer keeps nothing of zoom, pan, info visibility and
\* dragging (so a close of a closed viewer would change nothing, and none
\* happens), the next open starts with zoom 1, pan (0,0), info hidden and
\* not dragging, and close leaves the store and the selection as they were.
C16_CloseDiscardsViewerState ==
    /\ [](~ViewerOpen => fresh)
    /\ [][/\ lastEvent'.op = "close" =>
                /\ ViewerOpen
                /\ ~ViewerOpen'
                /\ photos' = photos
                /\ selectedPhotos' = selectedPhotos
                /\ isSelectionMode' = isSelectionMode
          /\ (~ViewerOpen /\ ViewerOpen') => fresh'
         ]_vars

\* the viewer has been opened again, after a stay in which the info panel
\* was shown and a photo un-favorited from it, and it starts anew
C16_Witness ==
    /\ ViewerOpen
    /\ lastEvent.op = "click"
    /\ \E i \in 1..Len(photos) : ~photos[i].isFavorite
    /\ fresh

\* C17: toggleInfo flips the info panel's visibility and leaves the photo
\* shown, zoom, pan and dragging; a second toggleInfo right after the first
\* restores the visibility from before the first; zoom, drag and navigation
\* events leave the visibility of the viewer they leave open.
C17_ToggleInfoFrame ==
    [][/\ lastEvent'.op = "toggleInfo" =>
             /\ showInfo' = ~showInfo
             /\ selectedPhoto' = selectedPhoto
             /\ zoom' = zoom
             /\ position' = position
             /\ isDragging' = isDragging
       /\ (lastEvent.op = "toggleInfo" /\ lastEvent'.op = "toggleInfo") =>
             (showInfo' <=> lastEvent.id = 1)
       /\ (/\ lastEvent'.op \in {"zoomIn", "zoomOut", "mouseDown",
                                 "mouseMove", "mouseUp", "next", "previous"}
           /\ ViewerOpen') =>
             showInfo' = showInfo
      ]_vars

\* the info panel has just been shown by the key i during a drag of a
\* zoomed and panned photo
C17_Witness ==
    /\ ViewerOpen
    /\ lastEvent = KeyEvent("toggleInfo", 0, "i")
    /\ showInfo
    /\ isDragging
    /\ less(One, zoom)
    /\ position = <<1, 2>>

\* C18: while the viewer is open, Escape closes it, ArrowLeft does what
\* previous does, ArrowRight what next does, i and I what toggleInfo does,
\* and any other key leaves the viewer, the store and the grid as they
\* were; while the viewer is closed no step is a key event, a close, a
\* previous, a next or a toggleInfo.
C18_KeyboardSurface ==
    [][/\ lastEvent'.key # "" => ViewerOpen
       /\ lastEvent'.key = "Escape" =>
             /\ lastEvent'.op = "close"
             /\ ~ViewerOpen'
       /\ lastEvent'.key = "ArrowLeft" =>
             /\ lastEvent'.op = "previous"
             /\ selectedPhoto' = previousTarget
       /\ lastEvent'.key = "ArrowRight" =>
             /\ lastEvent'.op = "next"
             /\ selectedPhoto' = nextTarget
       /\ lastEvent'.key \in {"i", "I"} =>
             /\ lastEvent'.op = "toggleInfo"
             /\ showInfo' = ~showInfo
             /\ UNCHANGED <<selectedPhoto, zoom, position, isDragging>>
       /\ lastEvent'.key \notin {"", "Escape", "ArrowLeft", "ArrowRight",
                                 "i", "I"} =>
             /\ lastEvent'.op = "key"
             /\ UNCHANGED <<appVars, gridVars, viewerVars>>
       /\ lastEvent'.key # "" => UNCHANGED <<photos, gridVars>>
       /\ ~ViewerOpen =>
             lastEvent'.op \notin {"close", "previous", "next",
                                   "toggleInfo", "key"}
      ]_vars

\* a key without a binding has been pressed on a zoomed and panned photo
\* with the info panel shown
C18_Witness ==
    /\ ViewerOpen
    /\ lastEvent.op = "key"
    /\ lastEvent.key = "x"
    /\ showInfo
    /\ less(One, zoom)
    /\ position = <<1, 2>>

\* C19: add appends its batch, in the batch's order, after the photos the
\* store held, which stay as they were and where they were, also when the
\* batch repeats an id; the store holds as many photos as were added.
C19_AddAppends ==
    /\ [](Len(photos) = uploaded)
    /\ [][lastEvent'.op = "add" =>
             LET ids == lastEvent'.ids
             IN /\ Len(ids) > 0
                /\ Len(photos') = Len(photos) + Len(ids)
                /\ SubSeq(photos', 1, Len(photos)) = photos
                /\ \A k \in 1..Len(ids) :
                       photos'[Len(photos) + k] = createPhotoFromFile(ids[k])
         ]_vars

\* the batch <<2, 1>> has been added to a store that held a photo of id 1,
\* now marked favorite: the store holds the ids 1, 2, 1 in this order
C19_Witness ==
    /\ lastEvent = BatchEvent("add", <<2, 1>>)
    /\ Len(photos) = 3
    /\ photos[1].id = 1 /\ photos[1].isFavorite
    /\ photos[2].id = 2
    /\ photos[3].id = 1 /\ ~photos[3].isFavorite

\* C20: toggleFavorite(id) keeps the length and the order of the store and
\* every field of every record but isFavorite of the records of that id,
\* which it flips; a second toggleFavorite(id) gives back the store from
\* before the first; with an id the store does not hold the store stays as
\* it is.
C20_ToggleFavoriteInvolution ==
    [][lastEvent'.op = "toggleFavorite" =>
          LET id == lastEvent'.id
          IN /\ Len(photos') = Len(photos)
             /\ \A i \in 1..Len(photos) :
                    /\ photos'[i].id = photos[i].id
                    /\ photos'[i].name = photos[i].name
                    /\ photos'[i].tags = photos[i].tags
                    /\ photos'[i].isFavorite =
                           IF photos[i].id = id THEN ~photos[i].isFavorite
                                                ELSE photos[i].isFavorite
             /\ toggleFavorite(photos', id) = photos
             /\ id \notin Ids(photos) => photos' = photos
      ]_vars

\* the favorite mark of photo 2 has just been taken off again, next to a
\* photo 1 that is marked
C20_Witness ==
    /\ lastEvent = Event("toggleFavorite", 2)
    /\ Len(photos) = 2
    /\ photos[1].id = 1 /\ photos[1].isFavorite
    /\ photos[2].id = 2 /\ ~photos[2].isFavorite
    /\ uploaded = 2

(***************************************************************************)
(* The visible sequence.                                                   *)
(***************************************************************************)
\* the same letter, whatever its case
sameLetter(c, d) ==
    \/ c = d
    \/ {c, d} = {"A", "a"}
    \/ {c, d} = {"B", "b"}

\* q occurs in s when case is ignored
occursIgnoringCase(s, q) ==
    \E start \in 0..(Len(s) - Len(q)) :
        \A k \in 1..Len(q) : sameLetter(s[start + k], q[k])

\* the places of the store whose photo is to be visible
visiblePlaces ==
    {i \in 1..Len(photos) :
        /\ \/ occursIgnoringCase(photos[i].name, searchQuery)
           \/ \E t \in 1..Len(photos[i].tags) :
                  occursIgnoringCase(photos[i].tags[t], searchQuery)
        /\ currentView = "favorites" => photos[i].isFavorite}

\* C21: in every state the visible sequence is the subsequence of the
\* store, in insertion order, of the photos whose name or one of whose tags
\* contains the query when case is ignored (all photos when the query is
\* empty), restricted to the favorites exactly in the favorites view.
C21_VisibleIsFilteredSubsequence ==
    /\ Len(displayPhotos) = Cardinality(visiblePlaces)
    /\ \A i \in visiblePlaces :
           displayPhotos[Cardinality({k \in visiblePlaces : k <= i})]
               = photos[i]

\* a query in another case than the name it finds, in the favorites view,
\* with one photo left out for the query and one for not being a favorite
C21_Witness ==
    /\ searchQuery = <<"A">>
    /\ currentView = "favorites"
    /\ \E i \in 1..Len(photos) :
           photos[i].name = <<"a">> /\ i \in visiblePlaces
    /\ \E i \in 1..Len(photos) :
           photos[i].name = <<"B">> /\ photos[i].isFavorite
    /\ \E i \in 1..Len(photos) :
           photos[i].name = <<"A", "b">> /\ ~photos[i].isFavorite
    /\ Len(displayPhotos) = 1

(***************************************************************************)
(* PhotoGrid: grouping by date.  uploadedAt is an instant of the clock, a  *)
(* date label is the calendar day written as <<month, day of the month>>,  *)
(* and groupedPhotos, a JavaScript object with string keys, is the         *)
(* sequence of its entries in the order the keys were created, which is    *)
(* the order Object.entries lists them in.                                 *)
(***************************************************************************)
\* the Photo made of the k-th file taken at instant uploadedAt
photoUploadedAt(k, uploadedAt) ==
    [id |-> k, name |-> FileName(k), uploadedAt |-> uploadedAt,
     isFavorite |-> FALSE, tags |-> <<>>]

\* formatDate: the calendar day of the instant, as a display label
formatDate(uploadedAt) ==
    LET day == uploadedAt \div TicksPerDay
    IN <<(day \div DaysPerMonth) + 1, (day % DaysPerMonth) + 1>>

\* new Date(label).getTime(): the instant the labelled day begins at
getTime(label) ==
    ((label[1] - 1) * DaysPerMonth + (label[2] - 1)) * TicksPerDay

\* a step of the reduce that puts the photo first in its group
groupStep_Unshifts(groups, photo) ==
    LET date == formatDate(photo.uploadedAt)
    IN IF \E g \in 1..Len(groups) : groups[g].date = date
       THEN [g \in 1..Len(groups) |->
                IF groups[g].date = date
                THEN [groups[g] EXCEPT !.photos = <<photo>> \o @]
                ELSE groups[g]]
       ELSE Append(groups, [date |-> date, photos |-> <<photo>>])

\* one step of the reduce: groups[date].push(photo), after creating
\* groups[date] when there is none
groupStep(groups, photo) ==
    LET date == formatDate(photo.uploadedAt)
    IN IF \E g \in 1..Len(groups) : groups[g].date = date
       THEN [g \in 1..Len(groups) |->
                IF groups[g].date = date
                THEN [groups[g] EXCEPT !.photos = Append(@, photo)]
                ELSE groups[g]]
       ELSE Append(groups, [date |-> date, photos |-> <<photo>>])

\* photos.reduce(..., {})
RECURSIVE reduce(_, _)
reduce(ps, groups) ==
    IF ps = <<>>
    THEN groups
    ELSE reduce(Tail(ps), groupStep(groups, Head(ps)))

groupedPhotosOf(ps) == reduce(ps, <<>>)

\* a comparator that puts the earliest day first
compareDates_Ascending(a, b) == getTime(a) - getTime(b)

\* the comparator of the sort: ([a], [b]) => new Date(b) - new Date(a)
compareDates(a, b) == getTime(b) - getTime(a)

\* Array.prototype.sort is stable: an entry goes behind the entries the
\* comparator does not put after it
RECURSIVE sort(_, _)
sort(entries, sorted) ==
    IF entries = <<>>
    THEN sorted
    ELSE LET entry == Head(entries)
             k == Cardinality({i \in 1..Len(sorted) :
                      compareDates(sorted[i].date, entry.date) <= 0})
         IN sort(Tail(entries),
                 SubSeq(sorted, 1, k) \o <<entry>>
                     \o SubSeq(sorted, k + 1, Len(sorted)))

\* the date sections the grid renders for its photos, top to bottom
sectionsOf(ps) == sort(groupedPhotosOf(ps), <<>>)

sections == sectionsOf(displayPhotos)

(***************************************************************************)
(* The grid's grouping alone: a store holding photos created at any        *)
(* instants, in any order, narrowed by the search box.                     *)
(***************************************************************************)
InitGroup ==
    /\ \E n \in 0..MaxPhotos :
        \E instants \in [1..n -> 0..MaxTime] :
            /\ photos = [k \in 1..n |-> photoUploadedAt(k, instants[k])]
            /\ uploaded = n
    /\ selectedPhoto = <<>>
    /\ searchQuery = <<>>
    /\ currentView = "photos"
    /\ selectedPhotos = {}
    /\ isSelectionMode = FALSE
    /\ showInfo = FALSE
    /\ zoom = One
    /\ position = Origin
    /\ isDragging = FALSE
    /\ dragStart = Origin
    /\ lastEvent = Event("init", 0)
    /\ toggleHistory = NoHistory
    /\ NoTransfer
    /\ NoUpload

NextGroup == SetSearchQuery

SpecGroup == InitGroup /\ [][NextGroup]_vars

\* the calendar day an instant falls on
dayOf(instant) == instant \div TicksPerDay

\* the places <<b, j>> of the sections: photo j of bucket b
sectionPlaces ==
    {pl \in (1..Len(sections)) \X (1..MaxPhotos + 1) :
        pl[2] <= Len(sections[pl[1]].photos)}

\* the place in the grid's input of the photo at a place of the sections
inputPlace(pl) ==
    CHOOSE i \in 1..Len(displayPhotos) :
        displayPhotos[i] = sections[pl[1]].photos[pl[2]]

\* C22: grouping by date is a stable partition of its input: every input
\* photo is in exactly one bucket, once; no bucket is empty; the photos of a
\* bucket are of one calendar day, the day of the bucket's label; photos of
\* one day are in one bucket; a bucket keeps the input's relative order.
C22_GroupingIsStablePartition ==
    /\ \A i \in 1..Len(displayPhotos) :
           Cardinality({pl \in sectionPlaces :
               sections[pl[1]].photos[pl[2]] = displayPhotos[i]}) = 1
    /\ Cardinality(sectionPlaces) = Len(displayPhotos)
    /\ \A b \in 1..Len(sections) : Len(sections[b].photos) > 0
    /\ \A pl \in sectionPlaces :
           /\ sections[pl[1]].date
                  = formatDate(sections[pl[1]].photos[pl[2]].uploadedAt)
           /\ \A pm \in sectionPlaces :
                  LET p == sections[pl[1]].photos[pl[2]]
                      q == sections[pm[1]].photos[pm[2]]
                  IN /\ (pl[1] = pm[1])
                            <=> (dayOf(p.uploadedAt) = dayOf(q.uploadedAt))
                     /\ (pl[1] = pm[1] /\ pl[2] < pm[2])
                            => inputPlace(pl) < inputPlace(pm)

\* two photos of one day with a photo of another day between them in the
\* input, created at different instants of their day
C22_Witness ==
    /\ Len(displayPhotos) = 3
    /\ dayOf(displayPhotos[1].uploadedAt) = dayOf(displayPhotos[3].uploadedAt)
    /\ displayPhotos[1].uploadedAt > displayPhotos[3].uploadedAt
    /\ dayOf(displayPhotos[2].uploadedAt) # dayOf(displayPhotos[1].uploadedAt)
    /\ \E b \in 1..Len(sections) :
           sections[b].photos = <<displayPhotos[1], displayPhotos[3]>>

\* C23: the buckets are in strictly descending order of calendar day,
\* whatever the order of the input; P1 and P2 of one day and P3 of the next
\* day, given in this order, yield the bucket of P3 and then that of P1, P2.
C23_SectionsDescendByDay ==
    /\ \A b, c \in 1..Len(sections) :
           b < c => dayOf(sections[b].photos[1].uploadedAt)
                        > dayOf(sections[c].photos[1].uploadedAt)
    /\ (/\ Len(displayPhotos) = 3
        /\ dayOf(displayPhotos[1].uploadedAt)
               = dayOf(displayPhotos[2].uploadedAt)
        /\ dayOf(displayPhotos[3].uploadedAt)
               = dayOf(displayPhotos[1].uploadedAt) + 1)
       => sections
              = << [date |-> formatDate(displayPhotos[3].uploadedAt),
                    photos |-> <<displayPhotos[3]>>],
                   [date |-> formatDate(displayPhotos[1].uploadedAt),
                    photos |-> <<displayPhotos[1], displayPhotos[2]>>] >>

\* the example, with the two days in different months
C23_Witness ==
    /\ Len(displayPhotos) = 3
    /\ dayOf(displayPhotos[1].uploadedAt) = dayOf(displayPhotos[2].uploadedAt)
    /\ dayOf(displayPhotos[3].uploadedAt)
           = dayOf(displayPhotos[1].uploadedAt) + 1
    /\ sections[1].date[1] > sections[2].date[1]
    /\ Len(sections) = 2

(***************************************************************************)
(* Bulk actions of the selection toolbar.                                  *)
(***************************************************************************)
\* the orders a set can be iterated in
Orders(ids) ==
    {order \in [1..Cardinality(ids) -> ids] :
        \A i, j \in 1..Cardinality(ids) : i # j => order[i] # order[j]}

\* the store after toggleFavorite was called for the ids in this order
RECURSIVE toggledInOrder(_, _)
toggledInOrder(ps, order) ==
    IF order = <<>>
    THEN ps
    ELSE toggledInOrder(toggleFavorite(ps, Head(order)), Tail(order))

\* C24: favorite-selected flips isFavorite of exactly the records whose id
\* is selected and leaves every other record and the order of the store as
\* they were, in whatever order the selected ids are visited.
C24_FavoriteSelectedFlipsSelected ==
    [][lastEvent'.op = "favoriteSelected" =>
          /\ Len(photos') = Len(photos)
          /\ \A i \in 1..Len(photos) :
                 IF photos[i].id \in selectedPhotos
                 THEN photos'[i] = [photos[i] EXCEPT
                                       !.isFavorite = ~photos[i].isFavorite]
                 ELSE photos'[i] = photos[i]
          /\ \A order \in Orders(selectedPhotos) :
                 toggledInOrder(photos, order) = photos']_vars

\* favorite-selected with two of three photos selected, one of the two a
\* favorite before and one not
C24_Witness ==
    /\ lastEvent.op = "favoriteSelected"
    /\ Len(photos) = 3
    /\ Cardinality(selectedPhotos) = 2
    /\ \E i, j \in 1..Len(photos) :
           /\ {photos[i].id, photos[j].id} = selectedPhotos
           /\ photos[i].isFavorite
           /\ ~photos[j].isFavorite
    /\ \E k \in 1..Len(photos) :
           photos[k].id \notin selectedPhotos /\ photos[k].isFavorite

\* C25: delete-selected calls the delete handler exactly once for each
\* selected id and for no other id, and leaves the grid in normal mode with
\* nothing selected.
C25_DeleteSelectedCallsOncePerId ==
    [][lastEvent'.op = "deleteSelected" =>
          LET calls == lastEvent'.ids
          IN /\ \A id \in selectedPhotos :
                    Cardinality({c \in 1..Len(calls) : calls[c] = id}) = 1
             /\ \A c \in 1..Len(calls) : calls[c] \in selectedPhotos
             /\ Ids(photos') = Ids(photos) \ selectedPhotos
             /\ ~isSelectionMode'
             /\ selectedPhotos' = {}]_vars

\* delete-selected with two of three photos selected
C25_Witness ==
    /\ lastEvent.op = "deleteSelected"
    /\ Len(lastEvent.ids) = 2
    /\ Len(photos) = 1
    /\ ~isSelectionMode
    /\ selectedPhotos = {}

(***************************************************************************)
(* Downloads and shares.  fetch, navigator.share and clipboard.writeText   *)
(* return promises: the handler that awaits one is suspended and other     *)
(* events are handled before the promise settles, either way.  A handler   *)
(* sees the props and the state of the render it was created in.           *)
(***************************************************************************)
Outcomes == {"fulfilled", "rejected"}

\* The for-of loop of download-selected from where it stands to its next
\* await: an id the photos do not hold is passed over, for the first id
\* they hold downloadPhoto is called, which starts the fetch.
RECURSIVE resume(_)
resume(job) ==
    IF job.rest = <<>>
    THEN job
    ELSE IF Head(job.rest) \in job.found
         THEN [job EXCEPT !.fetching = @ \cup {Head(job.rest)},
                          !.rest = Tail(@)]
         ELSE resume([job EXCEPT !.rest = Tail(@)])

\* "Download" of the toolbar
DownloadSelected ==
    /\ ToolbarShown
    /\ Len(downloads) < MaxJobs
    /\ downloads' = Append(downloads,
           resume([by |-> "toolbar",
                   selected |-> selectedPhotos,
                   found |-> Ids(displayPhotos),
                   rest |-> forEach(selectedPhotos),
                   fetching |-> {},
                   settled |-> <<>>]))
    /\ lastEvent' = Event("downloadSelected", 0)
    /\ UNCHANGED <<appVars, gridVars, viewerVars, toggleHistory,
                   hasNativeShare, shares, uncaught, modalVars>>

\* the "Download" menu item of a tile: downloadPhoto(photo)
DownloadPhoto ==
    /\ GridShown
    /\ Len(downloads) < MaxJobs
    /\ \E i \in 1..Len(displayPhotos) :
        /\ downloads' = Append(downloads,
               [by |-> "menu",
                selected |-> {displayPhotos[i].id},
                found |-> {displayPhotos[i].id},
                rest |-> <<>>,
                fetching |-> {displayPhotos[i].id},
                settled |-> <<>>])
        /\ lastEvent' = Event("download", displayPhotos[i].id)
    /\ UNCHANGED <<appVars, gridVars, viewerVars, toggleHistory,
                   hasNativeShare, shares, uncaught, modalVars>>

\* A fetch of downloadPhoto settles.  Fulfilled, the blob is saved through
\* a link; rejected (fetch or blob), the catch logs it.  Either way
\* downloadPhoto returns and the loop that awaited it goes on.
DownloadSettles ==
    /\ \E j \in 1..Len(downloads) :
        \E photoId \in downloads[j].fetching :
            \E outcome \in Outcomes :
                /\ downloads' = [downloads EXCEPT ![j] =
                       resume([@ EXCEPT
                           !.fetching = @ \ {photoId},
                           !.settled = Append(@, [id |-> photoId,
                                                  outcome |-> outcome])])]
                /\ lastEvent' = Event(IF outcome = "fulfilled"
                                      THEN "downloadSaved"
                                      ELSE "downloadFailed", photoId)
    /\ UNCHANGED <<appVars, gridVars, viewerVars, toggleHistory,
                   hasNativeShare, shares, uncaught, modalVars>>

\* sharePhoto up to its await: navigator.share when there is one, else
\* navigator.clipboard.writeText
sharePhoto(by) ==
    /\ Len(shares) < MaxShares
    /\ shares' = Append(shares,
           [by |-> by,
            call |-> IF hasNativeShare THEN "share" ELSE "writeText"])
    /\ lastEvent' = Event("share", 0)
    /\ UNCHANGED <<appVars, gridVars, viewerVars, toggleHistory,
                   hasNativeShare, downloads, uncaught, modalVars>>

\* the "Share" menu item of a tile
GridShare == GridShown /\ sharePhoto("grid")

\* the share button of the viewer
ViewerShare == OnControls /\ sharePhoto("viewer")

\* A promise of sharePhoto settles.  A rejected navigator.share is caught
\* and logged.  The clipboard write is outside the try: the grid awaits it,
\* so its rejection rejects the promise sharePhoto returned, which the
\* click handler dropped; the viewer does not await it, so the rejected
\* promise itself has no handler.
ShareSettles ==
    /\ \E k \in 1..Len(shares) :
        \E outcome \in Outcomes :
            /\ shares' = SubSeq(shares, 1, k - 1)
                             \o SubSeq(shares, k + 1, Len(shares))
            /\ uncaught' =
                   IF shares[k].call = "writeText" /\ outcome = "rejected"
                   THEN uncaught \cup {shares[k].by}
                   ELSE uncaught
            /\ lastEvent' = Event(IF outcome = "fulfilled"
                                  THEN "shareDone"
                                  ELSE "shareFailed", 0)
    /\ UNCHANGED <<appVars, gridVars, viewerVars, toggleHistory,
                   hasNativeShare, downloads, modalVars>>

(***************************************************************************)
(* The grid and the viewer with downloads and shares, over a library that  *)
(* already holds photos, on a platform with or without navigator.share.    *)
(***************************************************************************)
InitTransfer ==
    /\ \E n \in 1..MaxLibrary :
        /\ photos = [k \in 1..n |-> createPhotoFromFile(k)]
        /\ uploaded = n
    /\ selectedPhoto = <<>>
    /\ searchQuery = <<>>
    /\ currentView = "photos"
    /\ selectedPhotos = {}
    /\ isSelectionMode = FALSE
    /\ showInfo = FALSE
    /\ zoom = One
    /\ position = Origin
    /\ isDragging = FALSE
    /\ dragStart = Origin
    /\ lastEvent = Event("init", 0)
    /\ toggleHistory = NoHistory
    /\ hasNativeShare \in BOOLEAN
    /\ downloads = <<>>
    /\ shares = <<>>
    /\ uncaught = {}
    /\ NoUpload

NextTransfer ==
    \/ SetSearchQuery
    \/ PhotoClick
    \/ PhotoContextMenu
    \/ Cancel
    \/ ClickClose
    \/ DownloadSelected
    \/ DownloadPhoto
    \/ DownloadSettles
    \/ GridShare
    \/ ViewerShare
    \/ ShareSettles

SpecTransfer == InitTransfer /\ [][NextTransfer]_vars

\* the ids a download handler has called downloadPhoto for, call by call
issued(job) ==
    [c \in 1..Len(job.settled) |-> job.settled[c].id]

\* the handler has run to its end
finished(job) == job.rest = <<>> /\ job.fetching = {}

\* C26: download-selected issues exactly one download for each id selected
\* when it was dispatched, one at a time; what happens to the selection
\* while downloads are outstanding changes nothing about them, and cancel
\* still leaves selection mode at once.
C26_DownloadOncePerSelected ==
    /\ [](\A j \in 1..Len(downloads) :
              LET job == downloads[j]
              IN job.by = "toolbar" =>
                    /\ Cardinality(job.fetching) <= 1
                    /\ \A c, d \in 1..Len(job.settled) :
                           c # d => issued(job)[c] # issued(job)[d]
                    /\ \A c \in 1..Len(job.settled) :
                           /\ issued(job)[c] \in job.selected
                           /\ issued(job)[c] \notin job.fetching
                    /\ job.fetching \subseteq job.selected
                    /\ finished(job) =>
                           {issued(job)[c] : c \in 1..Len(job.settled)}
                               = job.selected)
    /\ [][/\ lastEvent'.op \notin {"downloadSelected", "download",
                                   "downloadSaved", "downloadFailed"}
             => downloads' = downloads
          /\ lastEvent'.op = "cancel"
             => ~isSelectionMode' /\ selectedPhotos' = {}]_vars

\* a download-selected that ran to its end with a download still
\* outstanding when selection mode was cancelled
C26_Witness ==
    /\ Len(downloads) = 1
    /\ downloads[1].by = "toolbar"
    /\ Cardinality(downloads[1].selected) = 2
    /\ Len(downloads[1].settled) = 2
    /\ finished(downloads[1])
    /\ ~isSelectionMode

\* C27: a failure of the download or share collaborator (a failed fetch, a
\* rejected native share, a rejected clipboard write) is caught where it
\* happens: no error leaves the action, the store, the selection and the
\* viewer are as before, and a download-selected still attempts every
\* remaining photo.
C27_FailuresCaughtLocally ==
    /\ [](uncaught = {})
    /\ [](\A j \in 1..Len(downloads) :
              finished(downloads[j]) =>
                  {issued(downloads[j])[c] :
                       c \in 1..Len(downloads[j].settled)}
                      = downloads[j].selected \cap downloads[j].found)
    /\ [][lastEvent'.op \in {"downloadFailed", "shareFailed"} =>
              UNCHANGED <<photos, selectedPhoto, gridVars, viewerVars>>]_vars

\* a rejected promise of each kind: a fetch of a download-selected that
\* went on to its end, or a share
C27_Witness ==
    \/ /\ lastEvent.op = "shareFailed"
       /\ hasNativeShare
    \/ /\ lastEvent.op = "downloadFailed"
       /\ Len(downloads) = 1
       /\ downloads[1].by = "toolbar"
       /\ Len(downloads[1].settled) = 2
       /\ downloads[1].settled[1].outcome = "rejected"

(***************************************************************************)
(* UploadModal.  The modal is mounted as long as App is: closed, it        *)
(* renders nothing and keeps its state.  createPhotoFromFile returns a     *)
(* promise that is resolved in the file's image's load event and in no     *)
(* other: the reader and the image have no error handler.                  *)
(***************************************************************************)
\* The files the user can pick: images that decode, a file that has an
\* image type and does not decode, a file of another type.
Files ==
    { [name |-> <<"a">>, type |-> "image/png", decodes |-> TRUE],
      [name |-> <<"A", "b">>, type |-> "image/png", decodes |-> TRUE],
      [name |-> <<"B">>, type |-> "image/png", decodes |-> FALSE],
      [name |-> <<"b">>, type |-> "text/plain", decodes |-> FALSE] }

\* what Math.random() can return
Randoms == {1, 2}

\* the choices of the user in the file dialog, or the files of a drop
Picks == UNION {[1..n -> Files] : n \in 1..MaxFiles}

\* file.type.startsWith('image/')
isImage(file) == file.type \in {"image/png"}

\* The "Upload" button of the header, or the one of the empty library.
OpenUploadModal ==
    /\ Uncovered
    /\ isUploadModalOpen' = TRUE
    /\ lastEvent' = Event("openUpload", 0)
    /\ UNCHANGED <<appVars, gridVars, viewerVars, toggleHistory,
                   transferVars, selectedFiles, uploading, uploadProgress,
                   progressInterval, decoding, resetTimer, now>>

\* The file input and the drop area take no event while uploading.
PickerEnabled == isUploadModalOpen /\ ~uploading

\* handleFileSelect, handleDrop
AddFiles ==
    /\ PickerEnabled
    /\ \E pick \in Picks :
        LET files == SelectSeq(pick, isImage)
        IN /\ Len(selectedFiles) + Len(files) <= MaxFiles
           /\ selectedFiles' = IF Len(files) > 0
                               THEN selectedFiles \o files
                               ELSE selectedFiles
    /\ lastEvent' = Event("addFiles", 0)
    /\ UNCHANGED <<appVars, gridVars, viewerVars, toggleHistory,
                   transferVars, isUploadModalOpen, uploading,
                   uploadProgress, progressInterval, decoding, resetTimer,
                   now>>

\* removeFile(index), of the button shown with a file while not uploading
RemoveFile ==
    /\ PickerEnabled
    /\ \E index \in 0..(Len(selectedFiles) - 1) :
        selectedFiles' = SubSeq(selectedFiles, 1, index)
                             \o SubSeq(selectedFiles, index + 2,
                                       Len(selectedFiles))
    /\ lastEvent' = Event("removeFile", 0)
    /\ UNCHANGED <<appVars, gridVars, viewerVars, toggleHistory,
                   transferVars, isUploadModalOpen, uploading,
                   uploadProgress, progressInterval, decoding, resetTimer,
                   now>>

Pending == [state |-> "pending", value |-> <<>>, rank |-> 0]

\* handleUpload up to its await: the upload button is disabled without
\* files and while uploading
HandleUpload ==
    /\ isUploadModalOpen
    /\ ~uploading
    /\ Len(selectedFiles) > 0
    /\ Len(photos) + Len(selectedFiles) <= MaxLibrary
    /\ uploading' = TRUE
    /\ uploadProgress' = 0
    /\ progressInterval' = TRUE
    /\ decoding' = [i \in 1..Len(selectedFiles) |-> Pending]
    /\ lastEvent' = Event("handleUpload", 0)
    /\ UNCHANGED <<appVars, gridVars, viewerVars, toggleHistory,
                   transferVars, isUploadModalOpen, selectedFiles,
                   resetTimer, now>>

\* the callback of the interval
ProgressTick ==
    /\ progressInterval
    /\ IF uploadProgress >= 90
       THEN /\ progressInterval' = FALSE
            /\ UNCHANGED uploadProgress
       ELSE /\ uploadProgress' = uploadProgress + 10
            /\ UNCHANGED progressInterval
    /\ lastEvent' = Event("progress", 0)
    /\ UNCHANGED <<appVars, gridVars, viewerVars, toggleHistory,
                   transferVars, isUploadModalOpen, selectedFiles,
                   uploading, decoding, resetTimer, now>>

\* the photo literal of img.onload
newPhoto(file, time, random) ==
    [id |-> <<time, random>>, name |-> file.name, uploadedAt |-> time,
     isFavorite |-> FALSE, tags |-> <<>>]

\* every promise handed to Promise.all is resolved
allResolved(promises) ==
    \A i \in 1..Len(promises) : promises[i].state = "resolved"

\* the number of promises resolved so far
resolvedCount(promises) ==
    Cardinality({i \in 1..Len(promises) : promises[i].state = "resolved"})

\* the values in the order the promises were resolved in
promiseAll_CompletionOrder(promises) ==
    [k \in 1..Len(promises) |->
        promises[CHOOSE i \in 1..Len(promises) :
                     promises[i].rank = k].value[1]]

\* the value Promise.all resolves with: the values of the promises, in the
\* order of the promises
promiseAll(promises) ==
    [k \in 1..Len(promises) |-> promises[k].value[1]]

\* The image of a file is loaded: its promise is resolved.  With the last
\* one Promise.all is resolved and handleUpload goes on behind its await,
\* before any other event is handled.
DecodeLoads ==
    /\ \E i \in 1..Len(decoding) :
        /\ decoding[i].state = "pending"
        /\ selectedFiles[i].decodes
        /\ \E time \in now..MaxClock :
            \E random \in Randoms :
                LET promises == [decoding EXCEPT ![i] =
                        [state |-> "resolved",
                         value |-> <<newPhoto(selectedFiles[i], time,
                                              random)>>,
                         rank |-> resolvedCount(decoding) + 1]]
                IN /\ decoding' = promises
                   /\ now' = time
                   /\ IF allResolved(promises)
                      THEN /\ photos' = handlePhotoUpload(photos,
                                                       promiseAll(promises))
                           /\ uploaded' = uploaded + Len(promises)
                           /\ progressInterval' = FALSE
                           /\ uploadProgress' = 100
                           /\ resetTimer' = TRUE
                      ELSE UNCHANGED <<photos, uploaded, progressInterval,
                                       uploadProgress, resetTimer>>
    /\ GridKeeps(displayPhotosOf(photos', searchQuery, currentView))
    /\ lastEvent' = Event("decoded", 0)
    /\ UNCHANGED <<selectedPhoto, searchQuery, currentView, viewerVars,
                   transferVars, isUploadModalOpen, selectedFiles,
                   uploading>>

\* The image of a file that does not decode fires its error event, which
\* nothing listens to.
DecodeFails ==
    /\ \E i \in 1..Len(decoding) :
        /\ decoding[i].state = "pending"
        /\ ~selectedFiles[i].decodes
        /\ decoding' = [decoding EXCEPT ![i].state = "failed"]
    /\ lastEvent' = Event("decodeFailed", 0)
    /\ UNCHANGED <<appVars, gridVars, viewerVars, toggleHistory,
                   transferVars, isUploadModalOpen, selectedFiles,
                   uploading, uploadProgress, progressInterval, resetTimer,
                   now>>

\* the callback of the timeout: reset and close
ResetAndClose ==
    /\ resetTimer
    /\ resetTimer' = FALSE
    /\ selectedFiles' = <<>>
    /\ uploadProgress' = 0
    /\ uploading' = FALSE
    /\ isUploadModalOpen' = FALSE
    /\ decoding' = <<>>
    /\ lastEvent' = Event("resetAndClose", 0)
    /\ UNCHANGED <<appVars, gridVars, viewerVars, toggleHistory,
                   transferVars, progressInterval, now>>

\* handleClose without its test of `uploading`
HandleClose_WhileUploading ==
    /\ isUploadModalOpen
    /\ selectedFiles' = <<>>
    /\ uploadProgress' = 0
    /\ isUploadModalOpen' = FALSE
    /\ lastEvent' = Event("handleClose", 0)
    /\ UNCHANGED <<appVars, gridVars, viewerVars, toggleHistory,
                   transferVars, uploading, progressInterval, decoding,
                   resetTimer, now>>

\* handleClose, of the close button and of "Cancel"
HandleClose ==
    /\ isUploadModalOpen
    /\ IF ~uploading
       THEN /\ selectedFiles' = <<>>
            /\ uploadProgress' = 0
            /\ isUploadModalOpen' = FALSE
       ELSE UNCHANGED <<selectedFiles, uploadProgress, isUploadModalOpen>>
    /\ lastEvent' = Event("handleClose", 0)
    /\ UNCHANGED <<appVars, gridVars, viewerVars, toggleHistory,
                   transferVars, uploading, progressInterval, decoding,
                   resetTimer, now>>

(***************************************************************************)
(* The library filled through the upload modal, with the grid's heart.     *)
(***************************************************************************)
ModalNext ==
    \/ OpenUploadModal
    \/ AddFiles
    \/ RemoveFile
    \/ HandleUpload
    \/ ProgressTick
    \/ DecodeLoads
    \/ DecodeFails
    \/ ResetAndClose
    \/ HandleClose

NextUpload == ModalNext

SpecUpload == Init /\ [][NextUpload]_vars

\* The event loop delivers the load or the error event of every file read
\* and runs the callbacks of the timers that are set.
SpecUploadLive ==
    /\ SpecUpload
    /\ WF_vars(DecodeLoads)
    /\ WF_vars(DecodeFails)
    /\ WF_vars(ProgressTick)
    /\ WF_vars(ResetAndClose)

\* The library filled through the upload modal, with the heart of the grid.
NextIds == ModalNext \/ GridToggleFavorite

SpecIds == Init /\ [][NextIds]_vars

\* the store holds the photo this promise was resolved with
added(promise) ==
    /\ promise.state = "resolved"
    /\ \E k \in 1..Len(photos) : photos[k] = promise.value[1]

\* C28: in an upload of several files some of which do not decode, every
\* file that decodes is added to the store and no record is added for one
\* that does not: once no file of the upload is still being decoded, the
\* store holds the photos of exactly the files that decode.
C28_DecodableFilesAreAdded ==
    (/\ uploading
     /\ \A i \in 1..Len(decoding) : decoding[i].state # "pending")
    => \A i \in 1..Len(decoding) :
           selectedFiles[i].decodes <=> added(decoding[i])

\* an upload of a file that decodes and one that does not, both settled
C28_Witness ==
    /\ uploading
    /\ Len(decoding) = 2
    /\ decoding[1].state = "resolved"
    /\ decoding[2].state = "failed"

\* C29: every upload that is started ends: the modal leaves the uploading
\* state, whether all files decode or some do not.
C29_UploadEnds == uploading ~> ~uploading

\* an upload that ended: the modal was reset and closed by the timeout
C29_Witness ==
    /\ lastEvent.op = "resetAndClose"
    /\ ~uploading
    /\ Len(photos) > 0

\* C30: whatever was uploaded, the same file several times too, and
\* whatever was marked favorite, no two records of the store have one id.
C30_IdsUnique ==
    \A i, j \in 1..Len(photos) : i # j => photos[i].id # photos[j].id

\* the same file uploaded twice, in one batch or in two, and one of the two
\* photos marked favorite
C30_Witness ==
    /\ Len(photos) = 2
    /\ photos[1].name = photos[2].name
    /\ photos[1].isFavorite # photos[2].isFavorite

\* C31: the photos of an upload are added to the store in the order of the
\* list of selected files, in one add, in whatever order the files were
\* decoded; before the last file is decoded the store holds none of them.
C31_BatchAddedInListOrder ==
    [][/\ (uploading /\ ~allResolved(decoding')) => photos' = photos
       /\ (uploading /\ photos' # photos) =>
             /\ lastEvent'.op = "decoded"
             /\ allResolved(decoding')
             /\ ~allResolved(decoding)
             /\ Len(photos') = Len(photos) + Len(selectedFiles)
             /\ SubSeq(photos', 1, Len(photos)) = photos
             /\ \A k \in 1..Len(selectedFiles) :
                    LET photo == photos'[Len(photos) + k]
                    IN /\ photo.name = selectedFiles[k].name
                       /\ photo = decoding'[k].value[1]]_vars

\* an upload of two files of different names added to the store, the
\* second file decoded before the first
C31_Witness ==
    /\ uploading
    /\ Len(decoding) = 2
    /\ allResolved(decoding)
    /\ decoding[1].rank = 2
    /\ decoding[2].rank = 1
    /\ selectedFiles[1].name # selectedFiles[2].name
    /\ Len(photos) = 2
    /\ photos[1].name = selectedFiles[1].name
    /\ photos[2].name = selectedFiles[2].name

\* no file of the upload in progress is still being decoded
decodesEnded ==
    \A i \in 1..Len(decoding) : decoding[i].state # "pending"

\* C32: at most one upload is in progress, and each file that is in the
\* list when the upload starts yields one photo, added to the store once:
\* while uploading, the delay before the reset included, no upload starts
\* and the list does not change; once the decodes of the upload have ended
\* its photos, one for each file, have been added, in one add and no other;
\* the reset leaves the list empty.
C32_OneUploadOnePhotoPerFile ==
    /\ [](uploading /\ decodesEnded => resetTimer)
    /\ [](resetTimer =>
              /\ uploading
              /\ Len(photos) >= Len(selectedFiles)
              /\ \A i \in 1..Len(selectedFiles) :
                     LET photo == photos[Len(photos) - Len(selectedFiles) + i]
                     IN /\ decoding[i].state = "resolved"
                        /\ photo = decoding[i].value[1]
                        /\ photo.name = selectedFiles[i].name)
    /\ [][/\ lastEvent'.op = "handleUpload" =>
                /\ ~uploading
                /\ uploading'
                /\ Len(decoding') = Len(selectedFiles)
          /\ uploading =>
                /\ selectedFiles' = selectedFiles \/ selectedFiles' = <<>>
                /\ selectedFiles' = <<>> <=> lastEvent'.op = "resetAndClose"
                /\ uploading' <=> lastEvent'.op # "resetAndClose"
                /\ photos' # photos => ~resetTimer /\ resetTimer'
          /\ lastEvent'.op = "resetAndClose" =>
                /\ resetTimer
                /\ selectedFiles' = <<>>
                /\ ~uploading'
                /\ photos' = photos]_vars

\* an upload of two files whose photos are in the store, before the reset
C32_Witness ==
    /\ uploading
    /\ resetTimer
    /\ Len(selectedFiles) = 2
    /\ Len(photos) = 2
    /\ lastEvent.op = "handleClose"

\* C33: a close or cancel request during an upload is ignored, the modal
\* stays open and the selected files, the progress and the uploading flag
\* are unchanged; with no upload in progress the request empties the list,
\* sets the progress to 0 and closes the modal, and the store is unchanged.
C33_CloseIgnoredWhileUploading ==
    [][lastEvent'.op = "handleClose" =>
          /\ isUploadModalOpen
          /\ photos' = photos
          /\ uploading' = uploading
          /\ IF uploading
             THEN /\ isUploadModalOpen'
                  /\ selectedFiles' = selectedFiles
                  /\ uploadProgress' = uploadProgress
                  /\ decoding' = decoding
             ELSE /\ ~isUploadModalOpen'
                  /\ selectedFiles' = <<>>
                  /\ uploadProgress' = 0]_vars

\* a close request made during an upload of two files that has progressed,
\* with photos in the store
C33_Witness ==
    /\ lastEvent.op = "handleClose"
    /\ uploading
    /\ isUploadModalOpen
    /\ uploadProgress > 0
    /\ Len(selectedFiles) = 2
    /\ Len(photos) > 0

\* C34: the grid's selection state does not survive an empty visible set:
\* while nothing is visible the grid holds no selection and is not in
\* selection mode, so when photos become visible again, after a change of
\* the query, a change of view or an un-favoriting in the favorites view,
\* the grid is in Normal mode with an empty selected set; and select-all is
\* only ever performed on a visible set that is not empty.
C34_SelectionLostWhenNothingVisible ==
    /\ [](Len(displayPhotos) = 0 => ~isSelectionMode /\ selectedPhotos = {})
    /\ [][/\ (Len(displayPhotos) = 0 /\ Len(displayPhotos') > 0) =>
                ~isSelectionMode' /\ selectedPhotos' = {}
          /\ lastEvent'.op = "selectAll" =>
                /\ Len(displayPhotos) > 0
                /\ isSelectionMode
                /\ selectedPhotos' = Ids(displayPhotos)
                /\ selectedPhotos' # {}]_vars

\* the favorites view emptied by un-favoriting the selected photos with the
\* toolbar, which is shown in selection mode only
C34_Witness ==
    /\ lastEvent.op = "favoriteSelected"
    /\ currentView = "favorites"
    /\ Len(photos) > 0
    /\ Len(displayPhotos) = 0
    /\ ~isSelectionMode

====
